---- MODULE Spec2Model ----
(***************************************************************************)
(* Model of the Moonward Odyssey multiplayer session server                *)
(* (src/server/index.ts): lobbies, matchmaking queue, socket.io rooms,     *)
(* scheduled callbacks and the events each handler emits.                  *)
(***************************************************************************)
EXTENDS Integers, Sequences, FiniteSets, TLC

\* ---------------------------------------------------------------- bounds
NumConns == 4
NumLobbyIds == 2
MaxTimers == 2
MaxSteps == 5

\* ------------------------------------------------------ program constants
MAX_LOBBIES == 20
MAX_PLAYERS_PER_LOBBY == 4
MATCH_MAX_PLAYERS == 2
MATCH_FOUND_DELAY == 100
MATCH_START_DELAY == 3500
START_DELAY == 3000
USERNAME_TIMEOUT == 300000
SWEEP_INTERVAL == 60000
START_HEALTH == 100

Conns == 1..NumConns
LobbyIds == 1..NumLobbyIds
NoLobby == 0
NoConn == 0

VARIABLES
    sockets,          \* io.sockets.sockets: ids of the connected sockets
    closed,           \* ids of sockets whose transport has closed
    lobbies,          \* Map<string, Lobby>
    socketToLobby,    \* Map<string, string>, NoLobby when absent
    matchmakingQueue, \* string[]
    rooms,            \* socket.io rooms each socket has joined
    lobbyCounter,     \* number of the next lobby name
    usernames,        \* Map<string, { socketId, lastActivity }>
    socketUsername,   \* (socket as any).username, NoName when unset
    now,              \* Date.now(), in ms since the server started
    timers,           \* pending setTimeout callbacks, in firing order
    emitted,          \* events emitted by the last handler, in order
    result,           \* what the last handler did and answered
    steps             \* handler invocations and callback runs so far

registry == <<usernames, socketUsername, now>>

vars == <<sockets, closed, lobbies, socketToLobby, matchmakingQueue, rooms,
          lobbyCounter, usernames, socketUsername, now, timers, emitted, result, steps>>

\* ---------------------------------------------------------------- helpers
Range(s) == {s[i] : i \in 1..Len(s)}

Ids(players) == {players[i].id : i \in 1..Len(players)}

IndexOf(s, x) ==
    IF \E i \in 1..Len(s) : s[i] = x
    THEN CHOOSE i \in 1..Len(s) : s[i] = x /\ \A j \in 1..(i-1) : s[j] # x
    ELSE 0

RemoveAt(s, i) == SubSeq(s, 1, i-1) \o SubSeq(s, i+1, Len(s))

QueueRemove_Keep(q, c) == q

\* matchmakingQueue.indexOf(id) followed by splice(index, 1) when found
QueueRemove(q, c) == IF IndexOf(q, c) > 0 THEN RemoveAt(q, IndexOf(q, c)) ELSE q

\* Map.prototype.delete on the insertion-ordered players map
PlayersDelete(players, c) == SelectSeq(players, LAMBDA p : p.id # c)

\* Map.prototype.set: an existing key keeps its position, a new key is appended
PlayersSet(players, p) ==
    IF p.id \in Ids(players)
    THEN [i \in 1..Len(players) |-> IF players[i].id = p.id THEN p ELSE players[i]]
    ELSE Append(players, p)

\* strings are sequences of one-character strings
NoName == <<>>
Guest == <<"G", "u", "e", "s", "t">>
Player1 == <<"P", "l", "a", "y", "e", "r", " ", "1">>
Player2 == <<"P", "l", "a", "y", "e", "r", " ", "2">>
Unknown == <<"U", "n", "k", "n", "o", "w", "n">>

\* x || fallback on a string: the empty and the unset string are falsy
OrElse(x, fallback) == IF x = NoName THEN fallback ELSE x

\* the Player literal of createLobby, joinLobby and quickMatch
Player(c, name, pos, host, ready, s) ==
    [id |-> c, username |-> name, position |-> pos, rotation |-> 0,
     health |-> START_HEALTH, isHost |-> host, isReady |-> ready, slot |-> s,
     lastActivity |-> now]

\* Math.random() * 10 - 5: a coordinate the server never reads
RandomCoord == 3

MapSet(m, k, v) == [x \in DOMAIN m \cup {k} |-> IF x = k THEN v ELSE m[x]]

MapDelete_Keep(m, k) == m

MapDelete(m, k) == [x \in DOMAIN m \ {k} |-> m[x]]

findAvailableSlot_Next(lobby) == Len(lobby.players) + 1

findAvailableSlot(lobby) ==
    LET usedSlots == {lobby.players[i].slot : i \in 1..Len(lobby.players)}
    IN  IF \E i \in 1..MAX_PLAYERS_PER_LOBBY : i \notin usedSlots
        THEN CHOOSE i \in 1..MAX_PLAYERS_PER_LOBBY :
                 i \notin usedSlots /\ \A j \in 1..(i-1) : j \in usedSlots
        ELSE -1

\* sockets that are in room L (io.to(L)) given the connected set and the rooms
RoomOf(socks, rms, L) == {c \in socks : L \in rms[c]}

\* an emit: the event, the sockets it reaches, the room it names, its argument
\* and, for a relayed update, the payload
EvData(e, to, L, arg, data) == [ev |-> e, to |-> to, lobby |-> L, arg |-> arg, data |-> data]

Ev(e, to, L, arg) == EvData(e, to, L, arg, <<>>)

Res(op, c, status, L) == [op |-> op, conn |-> c, status |-> status, lobby |-> L]

Duration(kind) ==
    CASE kind = "matchFound" -> MATCH_FOUND_DELAY
      [] kind = "matchStart" -> MATCH_START_DELAY
      [] kind = "start" -> START_DELAY

Timer(kind, L, a, b) == [kind |-> kind, lobby |-> L, partner |-> a, requester |-> b]

\* Positions at which a callback of the given delay, scheduled now, can sit in
\* the firing order: behind every pending callback whose delay is not longer.
TimerSlots(ts, kind) ==
    {p \in 0..Len(ts) : \A i \in (p+1)..Len(ts) : Duration(ts[i].kind) > Duration(kind)}

InsertAt(ts, p, t) == SubSeq(ts, 1, p) \o <<t>> \o SubSeq(ts, p+1, Len(ts))

\* ------------------------------------------------------------------- Init
Init ==
    /\ sockets = Conns
    /\ closed = {}
    /\ lobbies = [x \in {} |-> 0]
    /\ socketToLobby = [c \in Conns |-> NoLobby]
    /\ matchmakingQueue = <<>>
    /\ rooms = [c \in Conns |-> {}]
    /\ lobbyCounter = 1
    /\ usernames = [x \in {} |-> 0]
    /\ socketUsername = [c \in Conns |-> NoName]
    /\ now = 0
    /\ timers = <<>>
    /\ emitted = <<>>
    /\ result = Res("init", NoConn, "none", NoLobby)
    /\ steps = 0

\* A connected socket that no part of the state refers to is like any other
\* such socket (ids are only compared for equality): of these, the one with the
\* lowest id is the one that acts next.
Untouched(c) ==
    /\ c \in sockets
    /\ socketToLobby[c] = NoLobby
    /\ rooms[c] = {}
    /\ c \notin Range(matchmakingQueue)
    /\ \A L \in DOMAIN lobbies : c \notin Ids(lobbies[L].players) /\ lobbies[L].hostId # c
    /\ \A i \in 1..Len(timers) : c \notin {timers[i].partner, timers[i].requester}
    /\ socketUsername[c] = NoName
    /\ \A u \in DOMAIN usernames : usernames[u].socketId # c

Acts(c) ==
    /\ c \in sockets
    /\ Untouched(c) => \A d \in 1..(c-1) : ~Untouched(d)

\* every handler invocation and every callback run counts as one step
Tick ==
    /\ steps < MaxSteps
    /\ steps' = steps + 1

\* Math.random().toString(36).substring(2, 8).toUpperCase(): any id, one that
\* is in use included.  Ids are only ever compared for equality, so of the ids
\* that nothing refers to, the lowest stands for all of them.
KnownIds ==
    DOMAIN lobbies
      \cup ({socketToLobby[c] : c \in Conns} \ {NoLobby})
      \cup UNION {rooms[c] : c \in Conns}
      \cup {timers[i].lobby : i \in 1..Len(timers)}

RandomIds ==
    LET fresh == LobbyIds \ KnownIds
    IN  KnownIds \cup {x \in fresh : \A y \in fresh : x <= y}

\* getNextLobbyName: `Lobby ${lobbyCounter}`
LobbyName(n) == <<"Lobby", n>>

\* `Match ${lobbyId}`
MatchName(lobbyId) == <<"Match", lobbyId>>

AtCapacity_Over(n) == n > MAX_LOBBIES

\* lobbies.size >= MAX_LOBBIES
AtCapacity(n) == n >= MAX_LOBBIES

\* the body of the createLobby handler, Math.random() giving one of ids
createLobbyHandler(c, ids) ==
    /\ Acts(c)
    /\ UNCHANGED registry
    /\ IF AtCapacity(Cardinality(DOMAIN lobbies))
       THEN /\ result' = Res("createLobby", c, "Max lobbies reached (20)", NoLobby)
            /\ emitted' = <<>>
            /\ UNCHANGED <<lobbies, socketToLobby, rooms, lobbyCounter>>
       ELSE \E lobbyId \in ids :
            LET lobby == [name |-> LobbyName(lobbyCounter),
                          hostId |-> c,
                          players |-> <<Player(c, OrElse(socketUsername[c], Guest), <<0, 2, 0>>,
                                              TRUE, TRUE, 1)>>,
                          gameState |-> "waiting",
                          maxPlayers |-> MAX_PLAYERS_PER_LOBBY,
                              chat |-> <<>>]
            IN  /\ lobbyCounter' = lobbyCounter + 1
                /\ lobbies' = MapSet(lobbies, lobbyId, lobby)
                /\ socketToLobby' = [socketToLobby EXCEPT ![c] = lobbyId]
                /\ rooms' = [rooms EXCEPT ![c] = @ \cup {lobbyId}]
                /\ result' = Res("createLobby", c, "ok", lobbyId)
                /\ emitted' = <<Ev("lobbyListUpdated", sockets, NoLobby, NoConn)>>
    /\ UNCHANGED <<sockets, closed, matchmakingQueue, timers>>

createLobby(c) ==
    /\ Tick
    /\ createLobbyHandler(c, RandomIds)

LobbyIsFull_OffByOne(lobby) == Len(lobby.players) > lobby.maxPlayers

\* lobby.players.size >= lobby.maxPlayers
LobbyIsFull(lobby) == Len(lobby.players) >= lobby.maxPlayers

AlreadyStarted_PlayingOnly(lobby) == lobby.gameState = "playing"

\* lobby.gameState !== 'waiting'
AlreadyStarted(lobby) == lobby.gameState # "waiting"

joinLobby(c, lobbyId) ==
    /\ Tick
    /\ Acts(c)
    /\ UNCHANGED registry
    /\ IF lobbyId \notin DOMAIN lobbies
       THEN /\ result' = Res("joinLobby", c, "Lobby not found", lobbyId)
            /\ emitted' = <<>>
            /\ UNCHANGED <<lobbies, socketToLobby, rooms>>
       ELSE LET lobby == lobbies[lobbyId]
                slot == findAvailableSlot(lobby)
                player == Player(c, OrElse(socketUsername[c], Guest),
                                 <<RandomCoord, 2, RandomCoord>>, FALSE, FALSE, slot)
            IN  IF LobbyIsFull(lobby)
                THEN /\ result' = Res("joinLobby", c, "Lobby is full", lobbyId)
                     /\ emitted' = <<>>
                     /\ UNCHANGED <<lobbies, socketToLobby, rooms>>
                ELSE IF AlreadyStarted(lobby)
                THEN /\ result' = Res("joinLobby", c, "Game already started", lobbyId)
                     /\ emitted' = <<>>
                     /\ UNCHANGED <<lobbies, socketToLobby, rooms>>
                ELSE IF slot = -1
                THEN /\ result' = Res("joinLobby", c, "No available slots", lobbyId)
                     /\ emitted' = <<>>
                     /\ UNCHANGED <<lobbies, socketToLobby, rooms>>
                ELSE /\ lobbies' = [lobbies EXCEPT ![lobbyId].players = PlayersSet(@, player)]
                     /\ socketToLobby' = [socketToLobby EXCEPT ![c] = lobbyId]
                     /\ rooms' = [rooms EXCEPT ![c] = @ \cup {lobbyId}]
                     /\ result' = Res("joinLobby", c, "ok", lobbyId)
                     /\ emitted' = << Ev("playerJoined", RoomOf(sockets, rooms', lobbyId) \ {c}, lobbyId, c),
                                      Ev("lobbyListUpdated", sockets, NoLobby, NoConn) >>
    /\ UNCHANGED <<sockets, closed, matchmakingQueue, lobbyCounter, timers>>

quickMatch_PushOnly(c) ==
    /\ Tick
    /\ Acts(c)
    /\ UNCHANGED registry
    /\ matchmakingQueue' = Append(matchmakingQueue, c)
    /\ result' = Res("quickMatch", c, "searching", NoLobby)
    /\ emitted' = <<>>
    /\ UNCHANGED <<sockets, closed, lobbies, socketToLobby, rooms, lobbyCounter, timers>>

Shift_Peek(q) == q

\* matchmakingQueue.shift(), as the queue it leaves
Shift(q) == Tail(q)

\* the body of the quickMatch handler, Math.random() giving one of ids
quickMatchHandler(c, ids) ==
    /\ Acts(c)
    /\ UNCHANGED registry
    /\ LET q1 == QueueRemove(matchmakingQueue, c)
       IN  IF Len(q1) > 0
           THEN LET partnerId == Head(q1)
                    q2 == Shift(q1)
                IN  IF partnerId \in sockets
                    THEN \E lobbyId \in ids :
                         LET host == Player(partnerId, OrElse(socketUsername[partnerId], Player1),
                                            <<0, 2, 0>>, TRUE, TRUE, 1)
                             joiner == Player(c, OrElse(socketUsername[c], Player2),
                                              <<1, 2, 0>>, FALSE, TRUE, 2)
                             lobby == [name |-> MatchName(lobbyId),
                                       hostId |-> partnerId,
                                       players |-> PlayersSet(<<host>>, joiner),
                                       gameState |-> "loading",
                                       maxPlayers |-> MATCH_MAX_PLAYERS,
                              chat |-> <<>>]
                             found == Timer("matchFound", lobbyId, partnerId, c)
                             start == Timer("matchStart", lobbyId, NoConn, NoConn)
                         IN  /\ Len(timers) + 2 <= MaxTimers
                             /\ matchmakingQueue' = q2
                             /\ lobbies' = MapSet(lobbies, lobbyId, lobby)
                             /\ socketToLobby' = [socketToLobby EXCEPT ![partnerId] = lobbyId,
                                                                       ![c] = lobbyId]
                             /\ rooms' = [rooms EXCEPT ![partnerId] = @ \cup {lobbyId},
                                                       ![c] = @ \cup {lobbyId}]
                             /\ \E p \in TimerSlots(timers, "matchFound") :
                                    LET ts == InsertAt(timers, p, found)
                                    IN  \E r \in TimerSlots(ts, "matchStart") :
                                            timers' = InsertAt(ts, r, start)
                             /\ result' = Res("quickMatch", c, "matched", lobbyId)
                             /\ emitted' = <<>>
                    ELSE /\ matchmakingQueue' = Append(q2, c)
                         /\ result' = Res("quickMatch", c, "searching", NoLobby)
                         /\ emitted' = <<>>
                         /\ UNCHANGED <<lobbies, socketToLobby, rooms, lobbyCounter, timers>>
           ELSE /\ matchmakingQueue' = Append(q1, c)
                /\ result' = Res("quickMatch", c, "searching", NoLobby)
                /\ emitted' = <<>>
                /\ UNCHANGED <<lobbies, socketToLobby, rooms, lobbyCounter, timers>>
    /\ UNCHANGED <<sockets, closed, lobbyCounter>>

quickMatch(c) ==
    /\ Tick
    /\ quickMatchHandler(c, RandomIds)

cancelMatch(c) ==
    /\ Tick
    /\ Acts(c)
    /\ UNCHANGED registry
    /\ matchmakingQueue' = QueueRemove(matchmakingQueue, c)
    /\ result' = Res("cancelMatch", c, "none", NoLobby)
    /\ emitted' = <<>>
    /\ UNCHANGED <<sockets, closed, lobbies, socketToLobby, rooms, lobbyCounter, timers>>

NotTheHost_LobbyOnly(c, lobbyId) == lobbyId \notin DOMAIN lobbies

\* !lobby || lobby.hostId !== socket.id
NotTheHost(c, lobbyId) == lobbyId \notin DOMAIN lobbies \/ lobbies[lobbyId].hostId # c

startGame(c) ==
    /\ Tick
    /\ Acts(c)
    /\ UNCHANGED registry
    /\ LET lobbyId == socketToLobby[c]
       IN  IF lobbyId = NoLobby
           THEN /\ result' = Res("startGame", c, "Not in a lobby", NoLobby)
                /\ emitted' = <<>>
                /\ UNCHANGED <<lobbies, timers>>
           ELSE IF NotTheHost(c, lobbyId)
           THEN /\ result' = Res("startGame", c, "Not the host", lobbyId)
                /\ emitted' = <<>>
                /\ UNCHANGED <<lobbies, timers>>
           ELSE IF Len(lobbies[lobbyId].players) < 2
           THEN /\ result' = Res("startGame", c, "Need at least 2 players", lobbyId)
                /\ emitted' = <<>>
                /\ UNCHANGED <<lobbies, timers>>
           ELSE /\ Len(timers) + 1 <= MaxTimers
                /\ lobbies' = [lobbies EXCEPT ![lobbyId].gameState = "loading"]
                /\ \E p \in TimerSlots(timers, "start") :
                       timers' = InsertAt(timers, p, Timer("start", lobbyId, NoConn, NoConn))
                /\ result' = Res("startGame", c, "ok", lobbyId)
                /\ emitted' = << Ev("gameLoading", RoomOf(sockets, rooms, lobbyId), lobbyId, NoConn),
                                 Ev("lobbyListUpdated", sockets, NoLobby, NoConn) >>
    /\ UNCHANGED <<sockets, closed, socketToLobby, matchmakingQueue, rooms, lobbyCounter>>

\* player?.username || 'Unknown', player being the sender's roster record
killedPlayerName(lobbyId, c) ==
    LET mine == SelectSeq(lobbies[lobbyId].players, LAMBDA p : p.id = c)
    IN  IF mine = <<>> THEN Unknown ELSE OrElse(mine[1].username, Unknown)

playerDied(c) ==
    /\ Tick
    /\ Acts(c)
    /\ UNCHANGED registry
    /\ LET lobbyId == socketToLobby[c]
       IN  IF lobbyId = NoLobby \/ lobbyId \notin DOMAIN lobbies
           THEN /\ result' = Res("playerDied", c, "ignored", lobbyId)
                /\ emitted' = <<>>
                /\ UNCHANGED <<lobbies, socketToLobby, rooms>>
           ELSE LET members == Ids(lobbies[lobbyId].players)
                IN  /\ socketToLobby' = [x \in Conns |->
                                            IF x \in members THEN NoLobby ELSE socketToLobby[x]]
                    /\ rooms' = [x \in Conns |->
                                    IF x \in members /\ x \in sockets
                                    THEN rooms[x] \ {lobbyId} ELSE rooms[x]]
                    /\ lobbies' = MapDelete(lobbies, lobbyId)
                    /\ result' = Res("playerDied", c, "done", lobbyId)
                    /\ emitted' = << EvData("gameOver", RoomOf(sockets, rooms, lobbyId), lobbyId, c,
                                            killedPlayerName(lobbyId, c)),
                                     Ev("lobbyListUpdated", sockets, NoLobby, NoConn) >>
    /\ UNCHANGED <<sockets, closed, matchmakingQueue, lobbyCounter, timers>>

\* handleDisconnect, as the values it leaves behind.  socks and rms are the
\* connected set and the rooms at the time it runs.
HostMigrated(c) ==
    LET lobbyId == socketToLobby[c]
    IN  /\ lobbyId # NoLobby
        /\ lobbyId \in DOMAIN lobbies
        /\ lobbies[lobbyId].hostId = c
        /\ Len(PlayersDelete(lobbies[lobbyId].players, c)) > 0

Promote_KeepSeat(players) ==
    [i \in 1..Len(players) |->
        IF i = 1 THEN [players[i] EXCEPT !.isHost = TRUE] ELSE players[i]]

\* the first key of the players map becomes host and takes slot 1
Promote(players) ==
    [i \in 1..Len(players) |->
        IF i = 1 THEN [players[i] EXCEPT !.isHost = TRUE, !.slot = 1] ELSE players[i]]

handleDisconnectLobbies_KeepHost(c) ==
    LET lobbyId == socketToLobby[c]
    IN  IF lobbyId = NoLobby \/ lobbyId \notin DOMAIN lobbies
        THEN lobbies
        ELSE LET lobby == lobbies[lobbyId]
                 remaining == PlayersDelete(lobby.players, c)
             IN  IF lobby.hostId # c
                 THEN [lobbies EXCEPT ![lobbyId].players = remaining]
                 ELSE IF Len(remaining) > 0
                 THEN [lobbies EXCEPT ![lobbyId].players = Promote(remaining)]
                 ELSE MapDelete(lobbies, lobbyId)

handleDisconnectLobbies(c) ==
    LET lobbyId == socketToLobby[c]
    IN  IF lobbyId = NoLobby \/ lobbyId \notin DOMAIN lobbies
        THEN lobbies
        ELSE LET lobby == lobbies[lobbyId]
                 remaining == PlayersDelete(lobby.players, c)
             IN  IF lobby.hostId # c
                 THEN [lobbies EXCEPT ![lobbyId].players = remaining]
                 ELSE IF Len(remaining) > 0
                 THEN [lobbies EXCEPT ![lobbyId].players = Promote(remaining),
                                      ![lobbyId].hostId = remaining[1].id]
                 ELSE MapDelete(lobbies, lobbyId)

handleDisconnectEvents(c, socks, rms) ==
    LET lobbyId == socketToLobby[c]
    IN  IF lobbyId = NoLobby
        THEN <<>>
        ELSE (IF lobbyId \in DOMAIN lobbies
              THEN <<Ev("playerLeft", RoomOf(socks, rms, lobbyId) \ {c}, lobbyId, c)>>
                   \o (IF HostMigrated(c)
                       THEN <<Ev("newHost", RoomOf(socks, rms, lobbyId), lobbyId,
                                 PlayersDelete(lobbies[lobbyId].players, c)[1].id)>>
                       ELSE <<>>)
              ELSE <<>>)
             \o <<Ev("lobbyListUpdated", socks, NoLobby, NoConn)>>

handleDisconnect_KeepRef(c, socks, rms) ==
    /\ matchmakingQueue' = QueueRemove(matchmakingQueue, c)
    /\ lobbies' = handleDisconnectLobbies(c)
    /\ UNCHANGED socketToLobby

handleDisconnect(c, socks, rms) ==
    /\ matchmakingQueue' = QueueRemove(matchmakingQueue, c)
    /\ lobbies' = handleDisconnectLobbies(c)
    /\ socketToLobby' = [socketToLobby EXCEPT ![c] = NoLobby]

leaveLobby(c) ==
    /\ Tick
    /\ Acts(c)
    /\ UNCHANGED registry
    /\ handleDisconnect(c, sockets, rooms)
    /\ emitted' = handleDisconnectEvents(c, sockets, rooms)
                    \o <<Ev("lobbyListUpdated", sockets, NoLobby, NoConn)>>
    /\ result' = Res("leaveLobby", c, "none", socketToLobby[c])
    /\ UNCHANGED <<sockets, closed, rooms, lobbyCounter, timers>>

\* socket.io has already taken the socket out of io.sockets.sockets and of all
\* its rooms when the 'disconnect' handler runs
disconnect(c) ==
    /\ Tick
    /\ Acts(c)
    /\ UNCHANGED registry
    /\ sockets' = sockets \ {c}
    /\ closed' = closed \cup {c}
    /\ rooms' = [rooms EXCEPT ![c] = {}]
    /\ handleDisconnect(c, sockets', rooms')
    /\ emitted' = handleDisconnectEvents(c, sockets', rooms')
    /\ result' = Res("disconnect", c, "none", socketToLobby[c])
    /\ UNCHANGED <<lobbyCounter, timers>>

matchFoundTimer_PartnerOnly ==
    /\ Tick
    /\ timers # <<>>
    /\ UNCHANGED registry
    /\ Head(timers).kind = "matchFound"
    /\ LET t == Head(timers)
       IN  /\ emitted' = << Ev("matchFound", {t.partner} \cap sockets, t.lobby, t.partner) >>
           /\ result' = Res("matchFoundTimer", NoConn, "fired", t.lobby)
    /\ timers' = Tail(timers)
    /\ UNCHANGED <<sockets, closed, lobbies, socketToLobby, matchmakingQueue, rooms, lobbyCounter>>

\* the setTimeout callbacks; only the callback that is due first can run
matchFoundCallback ==
    /\ timers # <<>>
    /\ UNCHANGED registry
    /\ Head(timers).kind = "matchFound"
    /\ LET t == Head(timers)
       IN  /\ emitted' = << Ev("matchFound", {t.partner} \cap sockets, t.lobby, t.partner),
                            Ev("matchFound", {t.requester} \cap sockets, t.lobby, t.partner) >>
           /\ result' = Res("matchFoundTimer", NoConn, "fired", t.lobby)
    /\ timers' = Tail(timers)
    /\ UNCHANGED <<sockets, closed, lobbies, socketToLobby, matchmakingQueue, rooms, lobbyCounter>>

matchFoundTimer ==
    /\ Tick
    /\ matchFoundCallback

startTimerBody_Stay(t) ==
    /\ lobbies' = lobbies
    /\ emitted' = <<>>
    /\ result' = Res(t.kind \o "Timer", NoConn, "no lobby", t.lobby)

startTimerBody_NotToHost(t) ==
    IF t.lobby \in DOMAIN lobbies
    THEN /\ lobbies' = [lobbies EXCEPT ![t.lobby].gameState = "playing"]
         /\ emitted' = <<Ev("gameStarted",
                            RoomOf(sockets, rooms, t.lobby) \ {lobbies[t.lobby].hostId},
                            t.lobby, NoConn)>>
         /\ result' = Res(t.kind \o "Timer", NoConn, "fired", t.lobby)
    ELSE /\ lobbies' = lobbies
         /\ emitted' = <<>>
         /\ result' = Res(t.kind \o "Timer", NoConn, "no lobby", t.lobby)

\* const l = lobbies.get(lobbyId); if (l) { ... }
startTimerBody(t) ==
    IF t.lobby \in DOMAIN lobbies
    THEN /\ lobbies' = [lobbies EXCEPT ![t.lobby].gameState = "playing"]
         /\ emitted' = <<Ev("gameStarted", RoomOf(sockets, rooms, t.lobby), t.lobby, NoConn)>>
         /\ result' = Res(t.kind \o "Timer", NoConn, "fired", t.lobby)
    ELSE /\ lobbies' = lobbies
         /\ emitted' = <<>>
         /\ result' = Res(t.kind \o "Timer", NoConn, "no lobby", t.lobby)

matchStartCallback ==
    /\ timers # <<>>
    /\ UNCHANGED registry
    /\ Head(timers).kind = "matchStart"
    /\ startTimerBody(Head(timers))
    /\ timers' = Tail(timers)
    /\ UNCHANGED <<sockets, closed, socketToLobby, matchmakingQueue, rooms, lobbyCounter>>

matchStartTimer ==
    /\ Tick
    /\ matchStartCallback

startGameCallback ==
    /\ timers # <<>>
    /\ UNCHANGED registry
    /\ Head(timers).kind = "start"
    /\ startTimerBody(Head(timers))
    /\ timers' = Tail(timers)
    /\ UNCHANGED <<sockets, closed, socketToLobby, matchmakingQueue, rooms, lobbyCounter>>

startGameTimer ==
    /\ Tick
    /\ startGameCallback

Next ==
    \/ \E c \in Conns : createLobby(c)
    \/ \E c \in Conns, lobbyId \in LobbyIds : joinLobby(c, lobbyId)
    \/ \E c \in Conns : quickMatch(c)
    \/ \E c \in Conns : cancelMatch(c)
    \/ \E c \in Conns : startGame(c)
    \/ \E c \in Conns : playerDied(c)
    \/ \E c \in Conns : leaveLobby(c)
    \/ \E c \in Conns : disconnect(c)
    \/ matchFoundTimer
    \/ matchStartTimer
    \/ startGameTimer

Spec == Init /\ [][Next]_vars

\* ---------------------------------------------------------------- gameplay
CHAT_TEXT_MAX == 200
CHAT_MAX == 100

\* the payloads the clients send
Payloads == {[position |-> <<1, 2, 3>>, rotation |-> 1, health |-> 80]}
EntityLists == {<<1, 2>>}
ItemIds == {1}
ChatTexts == {<<"h", "i">>}

\* text.slice(0, n)
Slice(text, n) == SubSeq(text, 1, IF Len(text) < n THEN Len(text) ELSE n)

\* the connected sockets socket.to(lobbyId) reaches: the room without the sender
Relay_Echo(c, L) == RoomOf(sockets, rooms, L)

Relay(c, L) == RoomOf(sockets, rooms, L) \ {c}

SyncAllowed_Any(c, L) == TRUE

\* lobby && lobby.hostId === socket.id
SyncAllowed(c, L) == L \in DOMAIN lobbies /\ lobbies[L].hostId = c

\* usernames.get(username).lastActivity = Date.now(), when the entry exists
Touch(name) ==
    IF name # NoName /\ name \in DOMAIN usernames
    THEN [usernames EXCEPT ![name].lastActivity = now]
    ELSE usernames

playerUpdate(c, data) ==
    /\ Tick
    /\ Acts(c)
    /\ LET lobbyId == socketToLobby[c]
       IN  IF lobbyId = NoLobby \/ lobbyId \notin DOMAIN lobbies
           THEN /\ result' = Res("playerUpdate", c, "ignored", lobbyId)
                /\ emitted' = <<>>
                /\ UNCHANGED <<lobbies, usernames>>
           ELSE /\ IF c \in Ids(lobbies[lobbyId].players)
                   THEN /\ lobbies' = [lobbies EXCEPT ![lobbyId].players =
                               [i \in 1..Len(@) |->
                                   IF @[i].id = c
                                   THEN [@[i] EXCEPT !.position = data.position,
                                                     !.rotation = data.rotation,
                                                     !.health = data.health,
                                                     !.lastActivity = now]
                                   ELSE @[i]]]
                        /\ usernames' = Touch(socketUsername[c])
                   ELSE UNCHANGED <<lobbies, usernames>>
                /\ result' = Res("playerUpdate", c, "relayed", lobbyId)
                /\ emitted' = << EvData("playerMoved", Relay(c, lobbyId), lobbyId, c, data) >>
    /\ UNCHANGED <<sockets, closed, socketToLobby, matchmakingQueue, rooms, lobbyCounter,
                   socketUsername, now, timers>>

\* enemySync and collectibleSync: the same handler body with its own event name
hostSync(c, op, ev, list) ==
    /\ Tick
    /\ Acts(c)
    /\ LET lobbyId == socketToLobby[c]
       IN  IF lobbyId # NoLobby /\ SyncAllowed(c, lobbyId)
           THEN /\ result' = Res(op, c, "relayed", lobbyId)
                /\ emitted' = << EvData(ev, Relay(c, lobbyId), lobbyId, NoConn, list) >>
           ELSE /\ result' = Res(op, c, "ignored", lobbyId)
                /\ emitted' = <<>>
    /\ UNCHANGED <<sockets, closed, lobbies, socketToLobby, matchmakingQueue, rooms,
                   lobbyCounter, registry, timers>>

enemySync(c, enemies) == hostSync(c, "enemySync", "enemyUpdate", enemies)

collectibleSync(c, collectibles) ==
    hostSync(c, "collectibleSync", "collectibleUpdate", collectibles)

\* itemCollected and enemyKilled: relayed whenever the sender has a lobby id
relayId(c, op, ev, id) ==
    /\ Tick
    /\ Acts(c)
    /\ LET lobbyId == socketToLobby[c]
       IN  IF lobbyId # NoLobby
           THEN /\ result' = Res(op, c, "relayed", lobbyId)
                /\ emitted' = << EvData(ev, Relay(c, lobbyId), lobbyId, NoConn, id) >>
           ELSE /\ result' = Res(op, c, "ignored", lobbyId)
                /\ emitted' = <<>>
    /\ UNCHANGED <<sockets, closed, lobbies, socketToLobby, matchmakingQueue, rooms,
                   lobbyCounter, registry, timers>>

itemCollected(c, itemId) == relayId(c, "itemCollected", "itemRemoved", itemId)

enemyKilled(c, enemyId) == relayId(c, "enemyKilled", "enemyDied", enemyId)

ChatPush_NoEvict(chat, message) == Append(chat, message)

\* lobby.chat.push(message), then shift() when more than CHAT_MAX are kept
ChatPush(chat, message) ==
    IF Len(chat) + 1 > CHAT_MAX THEN Tail(Append(chat, message)) ELSE Append(chat, message)

\* generateMessageId(): a random string that the server never compares; the
\* ordinal of the message in its session stands for it
generateMessageId(chat) == IF chat = <<>> THEN 1 ELSE chat[Len(chat)].id + 1

\* the body of the sendChat handler
sendChatHandler(c, text) ==
    /\ Acts(c)
    /\ LET lobbyId == socketToLobby[c]
       IN  IF lobbyId = NoLobby \/ lobbyId \notin DOMAIN lobbies
           THEN /\ result' = Res("sendChat", c, "ignored", lobbyId)
                /\ emitted' = <<>>
                /\ UNCHANGED lobbies
           ELSE LET message == [id |-> generateMessageId(lobbies[lobbyId].chat),
                                username |-> OrElse(socketUsername[c], Guest),
                                text |-> Slice(text, CHAT_TEXT_MAX),
                                timestamp |-> now]
                IN  /\ lobbies' = [lobbies EXCEPT ![lobbyId].chat = ChatPush(@, message)]
                    /\ result' = Res("sendChat", c, "sent", lobbyId)
                    /\ emitted' = << EvData("chatMessage", RoomOf(sockets, rooms, lobbyId),
                                            lobbyId, c, message) >>
    /\ UNCHANGED <<sockets, closed, socketToLobby, matchmakingQueue, rooms, lobbyCounter,
                   registry, timers>>

sendChat(c, text) ==
    /\ Tick
    /\ sendChatHandler(c, text)

MayToggle_Anyone(players, i) == i > 0

\* player && !player.isHost, player being the record at index i (0: none)
MayToggle(players, i) == i > 0 /\ ~players[i].isHost

toggleReady(c) ==
    /\ Tick
    /\ Acts(c)
    /\ LET lobbyId == socketToLobby[c]
       IN  IF lobbyId = NoLobby \/ lobbyId \notin DOMAIN lobbies
           THEN /\ result' = Res("toggleReady", c, "ignored", lobbyId)
                /\ emitted' = <<>>
                /\ UNCHANGED lobbies
           ELSE LET players == lobbies[lobbyId].players
                    i == IndexOf([k \in 1..Len(players) |-> players[k].id], c)
                IN  IF MayToggle(players, i)
                    THEN /\ lobbies' = [lobbies EXCEPT ![lobbyId].players[i].isReady = ~@]
                         /\ result' = Res("toggleReady", c, "toggled", lobbyId)
                         /\ emitted' = << EvData("playerReady", RoomOf(sockets, rooms, lobbyId),
                                                 lobbyId, c, ~players[i].isReady) >>
                    ELSE /\ result' = Res("toggleReady", c, "ignored", lobbyId)
                         /\ emitted' = <<>>
                         /\ UNCHANGED lobbies
    /\ UNCHANGED <<sockets, closed, socketToLobby, matchmakingQueue, rooms, lobbyCounter,
                   registry, timers>>

Gameplay ==
    \/ \E c \in Conns, data \in Payloads : playerUpdate(c, data)
    \/ \E c \in Conns, enemies \in EntityLists : enemySync(c, enemies)
    \/ \E c \in Conns, collectibles \in EntityLists : collectibleSync(c, collectibles)
    \/ \E c \in Conns, itemId \in ItemIds : itemCollected(c, itemId)
    \/ \E c \in Conns, enemyId \in ItemIds : enemyKilled(c, enemyId)
    \/ \E c \in Conns, text \in ChatTexts : sendChat(c, text)
    \/ \E c \in Conns : toggleReady(c)

NextPlay == Next \/ Gameplay

SpecPlay == Init /\ [][NextPlay]_vars

\* ---------------------------------------------------------------- usernames
\* the usernames the clients ask for
RegNames == {<<"a", "b">>, <<"c", "d">>, <<" ", "a", "b", " ">>, <<"a", " ">>}

\* the time that passes between two handler runs
Delays == {1, USERNAME_TIMEOUT - 1, USERNAME_TIMEOUT + SWEEP_INTERVAL}

RECURSIVE TrimStart(_)
TrimStart(s) == IF s # <<>> /\ Head(s) = " " THEN TrimStart(Tail(s)) ELSE s

RECURSIVE TrimEnd(_)
TrimEnd(s) == IF s # <<>> /\ s[Len(s)] = " " THEN TrimEnd(SubSeq(s, 1, Len(s) - 1)) ELSE s

\* String.prototype.trim
Trim(s) == TrimEnd(TrimStart(s))

WithinWindow_Never(timeSince) == FALSE

\* timeSince < USERNAME_TIMEOUT
WithinWindow(timeSince) == timeSince < USERNAME_TIMEOUT

register(c, username) ==
    /\ Tick
    /\ Acts(c)
    /\ IF username = <<>> \/ Len(Trim(username)) < 2
       THEN /\ result' = Res("register", c, "Username must be at least 2 characters", NoLobby)
            /\ UNCHANGED <<usernames, socketUsername>>
       ELSE LET trimmed == Trim(username)
            IN  IF /\ trimmed \in DOMAIN usernames
                   /\ usernames[trimmed].socketId # c
                   /\ WithinWindow(now - usernames[trimmed].lastActivity)
                THEN /\ result' = Res("register", c, "Username taken", NoLobby)
                     /\ UNCHANGED <<usernames, socketUsername>>
                ELSE /\ usernames' = MapSet(usernames, trimmed,
                                            [socketId |-> c, lastActivity |-> now])
                     /\ socketUsername' = [socketUsername EXCEPT ![c] = trimmed]
                     /\ result' = Res("register", c, "ok", NoLobby)
    /\ emitted' = <<>>
    /\ UNCHANGED <<sockets, closed, lobbies, socketToLobby, matchmakingQueue, rooms,
                   lobbyCounter, now, timers>>

Expired_AtLimit(t, lastActivity) == t - lastActivity >= USERNAME_TIMEOUT

\* now - data.lastActivity > USERNAME_TIMEOUT
Expired(t, lastActivity) == t - lastActivity > USERNAME_TIMEOUT

\* the setInterval callback, run at time t
Sweep(t) ==
    [u \in {x \in DOMAIN usernames : ~Expired(t, usernames[x].lastActivity)} |-> usernames[u]]

\* the last time at or before t at which the sweep runs: every SWEEP_INTERVAL
\* from the start of the server
LastSweep(t) == (t \div SWEEP_INTERVAL) * SWEEP_INTERVAL

\* d milliseconds pass in which no handler runs; the sweeps that fall due run.
\* No entry changes between them, so the last one removes all that any removes.
Elapse(d) ==
    /\ Tick
    /\ timers = <<>>
    /\ now' = now + d
    /\ usernames' = IF LastSweep(now + d) > now THEN Sweep(LastSweep(now + d)) ELSE usernames
    /\ result' = Res("elapse", NoConn, "none", NoLobby)
    /\ emitted' = <<>>
    /\ UNCHANGED <<sockets, closed, lobbies, socketToLobby, matchmakingQueue, rooms,
                   lobbyCounter, socketUsername, timers>>

\* registration, the passing of time, and the handlers that read or write
\* the usernames map or decide who is connected
NextReg ==
    \/ \E c \in Conns, username \in RegNames : register(c, username)
    \/ \E d \in Delays : Elapse(d)
    \/ \E c \in Conns : createLobby(c)
    \/ \E c \in Conns, lobbyId \in LobbyIds : joinLobby(c, lobbyId)
    \/ \E c \in Conns : disconnect(c)
    \/ \E c \in Conns, data \in Payloads : playerUpdate(c, data)

SpecReg == Init /\ [][NextReg]_vars

\* the same with every gameplay handler and leaveLobby
NextActivity ==
    \/ NextReg
    \/ \E c \in Conns : leaveLobby(c)
    \/ Gameplay

SpecActivity == Init /\ [][NextActivity]_vars

\* ---------------------------------------------------------------- lobby list
\* Array.from(lobby.players.values()).find(p => p.isHost)?.username || 'Unknown'
HostUsername(players) ==
    LET hosts == SelectSeq(players, LAMBDA p : p.isHost)
    IN  IF hosts = <<>> THEN Unknown ELSE OrElse(hosts[1].username, Unknown)

getLobbyInfo(lobbyId) ==
    [id |-> lobbyId,
     name |-> lobbies[lobbyId].name,
     playerCount |-> Len(lobbies[lobbyId].players),
     maxPlayers |-> lobbies[lobbyId].maxPlayers,
     gameState |-> lobbies[lobbyId].gameState,
     hostUsername |-> HostUsername(lobbies[lobbyId].players)]

Listable_AnyState(l) == Len(l.players) < l.maxPlayers

\* l.gameState === 'waiting' && l.players.size < l.maxPlayers
Listable(l) == l.gameState = "waiting" /\ Len(l.players) < l.maxPlayers

\* the list the getLobbies callback is given, as the set of its entries
LobbyList == {getLobbyInfo(lobbyId) : lobbyId \in {x \in DOMAIN lobbies : Listable(lobbies[x])}}

getLobbies(c) ==
    /\ Tick
    /\ Acts(c)
    /\ result' = Res("getLobbies", c, "ok", NoLobby)
    /\ emitted' = << EvData("getLobbies:callback", {c}, NoLobby, NoConn, LobbyList) >>
    /\ UNCHANGED <<sockets, closed, lobbies, socketToLobby, matchmakingQueue, rooms,
                   lobbyCounter, registry, timers>>

NextList ==
    \/ Next
    \/ \E c \in Conns : getLobbies(c)

SpecList == Init /\ [][NextList]_vars

\* ---------------------------------------------------------------- long chats
\* the number of messages a session is sent
MaxChats == 102

\* a sendChat that is not counted in the length of the run, so that a session
\* can be sent more than CHAT_MAX messages
sendChatMore(c, text) ==
    /\ socketToLobby[c] \in DOMAIN lobbies
    /\ generateMessageId(lobbies[socketToLobby[c]].chat) <= MaxChats
    /\ sendChatHandler(c, text)
    /\ UNCHANGED steps

\* the clients open one session, join it and chat in it
NextChat ==
    \/ \E c \in Conns : DOMAIN lobbies = {} /\ createLobby(c)
    \/ \E c \in Conns, lobbyId \in LobbyIds : joinLobby(c, lobbyId)
    \/ \E c \in Conns, text \in ChatTexts : sendChatMore(c, text)

SpecChat == Init /\ [][NextChat]_vars

\* ---------------------------------------------------------------- many lobbies
\* an id that nothing refers to, of enough ids for MAX_LOBBIES sessions and two more
FreshIds ==
    LET fresh == (1..(MAX_LOBBIES + 2)) \ KnownIds
    IN  {x \in fresh : \A y \in fresh : x <= y}

\* a createLobby of the connection that has opened every session so far; it is
\* not counted in the length of the run, so that MAX_LOBBIES sessions can be open
createLobbyMore(c) ==
    /\ \A L \in DOMAIN lobbies : lobbies[L].hostId = c
    /\ createLobbyHandler(c, FreshIds)
    /\ UNCHANGED steps

\* a joinLobby at the time the server has room for one more session at most
joinLobbyLate(c, lobbyId) ==
    /\ Cardinality(DOMAIN lobbies) >= MAX_LOBBIES - 1
    /\ joinLobby(c, lobbyId)

\* a quickMatch at that time, the id of a new session being a fresh one
quickMatchLate(c) ==
    /\ Cardinality(DOMAIN lobbies) >= MAX_LOBBIES - 1
    /\ Tick
    /\ quickMatchHandler(c, FreshIds)

\* one client opens session after session; when the server is nearly full the
\* others join the first sessions or ask for a match
NextMany ==
    \/ \E c \in Conns : createLobbyMore(c)
    \/ \E c \in Conns, lobbyId \in LobbyIds : joinLobbyLate(c, lobbyId)
    \/ \E c \in Conns : quickMatchLate(c)

SpecMany == Init /\ [][NextMany]_vars

\* ---------------------------------------------------------------- due timers
\* a callback that runs when it is due, however many handlers have run
matchFoundDue == matchFoundCallback /\ UNCHANGED steps

matchStartDue == matchStartCallback /\ UNCHANGED steps

startGameDue == startGameCallback /\ UNCHANGED steps

\* the number of handler runs the callbacks are followed through
MaxLiveSteps == 4

NextLive ==
    \/ \E c \in Conns : steps < MaxLiveSteps /\ createLobby(c)
    \/ \E c \in Conns, lobbyId \in LobbyIds : steps < MaxLiveSteps /\ joinLobby(c, lobbyId)
    \/ \E c \in Conns : steps < MaxLiveSteps /\ quickMatch(c)
    \/ \E c \in Conns : steps < MaxLiveSteps /\ cancelMatch(c)
    \/ \E c \in Conns : steps < MaxLiveSteps /\ startGame(c)
    \/ \E c \in Conns : steps < MaxLiveSteps /\ playerDied(c)
    \/ \E c \in Conns : steps < MaxLiveSteps /\ leaveLobby(c)
    \/ \E c \in Conns : steps < MaxLiveSteps /\ disconnect(c)
    \/ matchFoundDue
    \/ matchStartDue
    \/ startGameDue

\* the event loop runs every callback whose delay has passed
TimersFire ==
    /\ WF_vars(matchFoundDue)
    /\ WF_vars(matchStartDue)
    /\ WF_vars(startGameDue)

SpecLive == Init /\ [][NextLive]_vars /\ TimersFire

TypeOK ==
    /\ sockets \subseteq Conns
    /\ closed \subseteq Conns
    /\ sockets \cap closed = {}
    /\ DOMAIN lobbies \subseteq LobbyIds
    /\ Len(timers) <= MaxTimers

\* ================================================================ claims
Roster(L) == Ids(lobbies[L].players)

HostFlags(L) == {i \in 1..Len(lobbies[L].players) : lobbies[L].players[i].isHost}

Events(es, e) == {i \in 1..Len(es) : es[i].ev = e}

Rank(gameState) ==
    CASE gameState = "waiting" -> 0
      [] gameState = "loading" -> 1
      [] gameState = "playing" -> 2
      [] gameState = "finished" -> 3

\* C1: every tracked session with at least one participant has exactly one
\* participant whose isHost flag is true.
C1_ExactlyOneHost ==
    \A L \in DOMAIN lobbies :
        Len(lobbies[L].players) > 0 => Cardinality(HostFlags(L)) = 1

\* C2: a connection is in the roster of at most one tracked session.
C2_AtMostOneSession ==
    \A c \in Conns : Cardinality({L \in DOMAIN lobbies : c \in Roster(L)}) <= 1

\* C3: the lifecycleState of a tracked session never moves to an earlier state.
\* A step that stores a newly created session under the id is not a step of
\* the session that was there before.
C3_StateOnlyAdvances ==
    [][\A L \in DOMAIN lobbies \cap DOMAIN lobbies' :
          ~(/\ result'.op \in {"createLobby", "quickMatch"}
            /\ result'.status \in {"ok", "matched"}
            /\ result'.lobby = L)
          => Rank(lobbies'[L].gameState) >= Rank(lobbies[L].gameState)]_vars

\* C4: participants.size <= capacity in every state, and joinLobby on a session
\* whose roster has reached its capacity answers "Lobby is full" and changes no
\* roster, no back-reference and no room.
C4_CapacityRespected ==
    /\ [](\A L \in DOMAIN lobbies : Len(lobbies[L].players) <= lobbies[L].maxPlayers)
    /\ [][(/\ result'.op = "joinLobby"
           /\ steps' = steps + 1
           /\ result'.lobby \in DOMAIN lobbies
           /\ Len(lobbies[result'.lobby].players) >= lobbies[result'.lobby].maxPlayers)
          => (/\ result'.status = "Lobby is full"
              /\ UNCHANGED <<lobbies, socketToLobby, rooms>>)]_vars

C4_Witness ==
    /\ result.op = "joinLobby"
    /\ result.status = "Lobby is full"
    /\ result.lobby \in DOMAIN lobbies
    /\ Len(lobbies[result.lobby].players) = lobbies[result.lobby].maxPlayers
    /\ result.conn \notin Roster(result.lobby)

\* C5: a connection whose transport has closed is in no roster and not in the
\* matchmaking queue.
C5_ClosedIsGone ==
    \A c \in closed :
        /\ \A L \in DOMAIN lobbies : c \notin Roster(L)
        /\ c \notin Range(matchmakingQueue)

\* the step was a leaveLobby or a disconnect of c, mapped to the tracked session L
Leaves(c, L) ==
    /\ steps' = steps + 1
    /\ result'.op \in {"leaveLobby", "disconnect"}
    /\ result'.conn = c
    /\ socketToLobby[c] = L
    /\ L \in DOMAIN lobbies

\* the participants that stay when c goes, earliest joined first
Remaining(c, L) == SelectSeq(lobbies[L].players, LAMBDA p : p.id # c)

C7_SeatsDistinct ==
    \A L \in DOMAIN lobbies :
        LET players == lobbies[L].players
        IN  /\ \A i \in 1..Len(players) : players[i].slot \in 1..lobbies[L].maxPlayers
            /\ \A i, j \in 1..Len(players) : i # j => players[i].slot # players[j].slot

\* the step ran the scheduled callback that was due first
TimerFired ==
    /\ timers # <<>>
    /\ timers' = Tail(timers)
    /\ steps' = steps + 1

Delivered(es) == {i \in 1..Len(es) : es[i].to # {}}

\* C8: a scheduled callback that fires after its session has been deleted
\* changes no server state and delivers no event.
C8_DeletedSessionNoOp ==
    [][(TimerFired /\ Head(timers).lobby \notin DOMAIN lobbies)
          => /\ UNCHANGED <<sockets, closed, lobbies, socketToLobby, matchmakingQueue,
                            rooms, lobbyCounter>>
             /\ Delivered(emitted') = {}]_vars

StartTimers(ts, L) == {i \in 1..Len(ts) : ts[i].kind = "start" /\ ts[i].lobby = L}

\* the step was a startGame that answered success for session L
StartedGame(L) ==
    /\ steps' = steps + 1
    /\ result'.op = "startGame"
    /\ result'.status = "ok"
    /\ result'.lobby = L

\* C9: a successful startGame sets the session to Loading and broadcasts
\* gameLoading at once, leaving the start callback pending; when that callback
\* fires on the still-existing session the state becomes Playing and gameStarted
\* goes to every connected participant; gameStarted is only ever sent by a
\* callback, hence after the gameLoading of the startGame that scheduled it.
C9_LoadingThenStarted ==
    /\ [][\A L \in LobbyIds :
             StartedGame(L) =>
               /\ L \in DOMAIN lobbies'
               /\ lobbies'[L].gameState = "loading"
               /\ emitted'[1].ev = "gameLoading"
               /\ emitted'[1].lobby = L
               /\ Roster(L) \cap sockets \subseteq emitted'[1].to
               /\ Events(emitted', "gameStarted") = {}
               /\ Cardinality(StartTimers(timers', L)) = Cardinality(StartTimers(timers, L)) + 1]_vars
    /\ [][(TimerFired /\ Head(timers).kind = "start" /\ Head(timers).lobby \in DOMAIN lobbies)
             => LET L == Head(timers).lobby
                IN  /\ L \in DOMAIN lobbies'
                    /\ lobbies'[L].gameState = "playing"
                    /\ Len(emitted') = 1
                    /\ emitted'[1].ev = "gameStarted"
                    /\ emitted'[1].lobby = L
                    /\ Roster(L) \cap sockets \subseteq emitted'[1].to]_vars
    /\ [][Events(emitted', "gameStarted") # {}
             => (TimerFired /\ Head(timers).kind \in {"start", "matchStart"})]_vars

\* the callback of a startGame has just fired on its session of two
C9_Witness ==
    /\ result.op = "startTimer"
    /\ result.status = "fired"
    /\ result.lobby \in DOMAIN lobbies
    /\ lobbies[result.lobby].gameState = "playing"
    /\ Len(lobbies[result.lobby].players) >= 2
    /\ Len(emitted) = 1
    /\ emitted[1].ev = "gameStarted"
    /\ Roster(result.lobby) \subseteq emitted[1].to

\* C10: startGame from a connection mapped to a tracked session it does not host
\* answers "Not the host", and from the host of a session with fewer than two
\* participants "Need at least 2 players"; in both cases no lifecycleState
\* changes, no callback is scheduled and no gameLoading is broadcast.
C10_StartGameRejected ==
    [][\A c \in Conns :
          (/\ steps' = steps + 1
           /\ result'.op = "startGame"
           /\ result'.conn = c
           /\ socketToLobby[c] \in DOMAIN lobbies)
          => LET L == socketToLobby[c]
                 rejected == /\ UNCHANGED <<lobbies, timers>>
                             /\ Events(emitted', "gameLoading") = {}
             IN  /\ lobbies[L].hostId # c
                      => (result'.status = "Not the host" /\ rejected)
                 /\ (lobbies[L].hostId = c /\ Len(lobbies[L].players) < 2)
                      => (result'.status = "Need at least 2 players" /\ rejected)]_vars

\* a participant that is not the host has just been refused
C10_Witness ==
    /\ result.op = "startGame"
    /\ result.status = "Not the host"
    /\ result.lobby \in DOMAIN lobbies
    /\ result.conn \in Roster(result.lobby)
    /\ socketToLobby[result.conn] = result.lobby
    /\ lobbies[result.lobby].hostId # result.conn
    /\ Len(lobbies[result.lobby].players) >= 2
    /\ lobbies[result.lobby].gameState = "waiting"

\* the queue as quickMatch of c sees it after taking c's own entry out
Others(c) == SelectSeq(matchmakingQueue, LAMBDA x : x # c)

\* the step was a quickMatch of c
QuickMatched(c) ==
    /\ steps' = steps + 1
    /\ result'.op = "quickMatch"
    /\ result'.conn = c

\* C11: quickMatch while another live connection is queued takes the oldest such
\* connection out of the queue and stores one new session of capacity 2 in
\* state Loading whose roster is that connection as host at seat 1 and the
\* requester as non-host at seat 2; the callback it leaves pending then sends
\* matchFound, naming that session id, to both of them.
C11_MatchCreatesSession ==
    /\ [][\A c \in Conns :
             (QuickMatched(c) /\ Others(c) # <<>> /\ Head(Others(c)) \in sockets)
             => LET partner == Head(Others(c))
                    L == result'.lobby
                IN  /\ result'.status = "matched"
                    /\ matchmakingQueue' = Tail(Others(c))
                    /\ L \in DOMAIN lobbies'
                    /\ \A x \in DOMAIN lobbies \ {L} :
                           x \in DOMAIN lobbies' /\ lobbies'[x] = lobbies[x]
                    /\ DOMAIN lobbies' = DOMAIN lobbies \cup {L}
                    /\ lobbies'[L].maxPlayers = 2
                    /\ lobbies'[L].gameState = "loading"
                    /\ lobbies'[L].hostId = partner
                    /\ Len(lobbies'[L].players) = 2
                    /\ lobbies'[L].players[1].id = partner
                    /\ lobbies'[L].players[1].isHost
                    /\ lobbies'[L].players[1].slot = 1
                    /\ lobbies'[L].players[2].id = c
                    /\ ~lobbies'[L].players[2].isHost
                    /\ lobbies'[L].players[2].slot = 2
                    /\ Cardinality({i \in 1..Len(timers') :
                                      timers'[i] = Timer("matchFound", L, partner, c)})
                         = Cardinality({i \in 1..Len(timers) :
                                      timers[i] = Timer("matchFound", L, partner, c)}) + 1]_vars
    /\ [][(TimerFired /\ Head(timers).kind = "matchFound")
             => LET t == Head(timers)
                IN  /\ Len(emitted') = 2
                    /\ \A i \in 1..2 : emitted'[i].ev = "matchFound" /\ emitted'[i].lobby = t.lobby
                    /\ emitted'[1].to = {t.partner} \cap sockets
                    /\ emitted'[2].to = {t.requester} \cap sockets]_vars

\* both matched connections have just been sent matchFound for their session
C11_Witness ==
    /\ result.op = "matchFoundTimer"
    /\ result.lobby \in DOMAIN lobbies
    /\ lobbies[result.lobby].maxPlayers = 2
    /\ Len(emitted) = 2
    /\ emitted[1].to = {lobbies[result.lobby].players[1].id}
    /\ emitted[2].to = {lobbies[result.lobby].players[2].id}
    /\ emitted[1].lobby = result.lobby
    /\ emitted[2].lobby = result.lobby

\* C12: each connection appears at most once in the matchmaking queue.
C12_QueuedOnce ==
    \A i, j \in 1..Len(matchmakingQueue) :
        i # j => matchmakingQueue[i] # matchmakingQueue[j]

\* a connection has asked for a match again and waits in the queue
C12_Witness ==
    /\ result.op = "quickMatch"
    /\ result.status = "searching"
    /\ steps >= 2
    /\ matchmakingQueue = <<result.conn>>
    /\ lobbies = [x \in {} |-> 0]
    /\ \A c \in Conns : rooms[c] = {}

\* C13: the queue entry a quickMatch pairs with is consumed by that quickMatch:
\* neither of the two matched connections is queued afterwards, so no second
\* requester can be paired with the same entry.
C13_EntryPairedOnce ==
    [][\A c \in Conns :
          (QuickMatched(c) /\ result'.status = "matched")
          => LET L == result'.lobby
             IN  /\ lobbies'[L].hostId = Head(Others(c))
                 /\ lobbies'[L].hostId \notin Range(matchmakingQueue')
                 /\ c \notin Range(matchmakingQueue')
                 /\ Len(matchmakingQueue') = Len(Others(c)) - 1]_vars

\* a match has just been made and the queue is empty again
C13_Witness ==
    /\ result.op = "quickMatch"
    /\ result.status = "matched"
    /\ result.lobby \in DOMAIN lobbies
    /\ Len(lobbies[result.lobby].players) = 2
    /\ matchmakingQueue = <<>>

\* the place of c in the roster of L
SeatIndex(c, L) == IndexOf([k \in 1..Len(lobbies[L].players) |-> lobbies[L].players[k].id], c)

\* C18: a playerUpdate from a participant A of a tracked session stores the given
\* position, rotation and health on A's record and emits exactly one playerMoved
\* event carrying id = A and the same payload, addressed to every other
\* connected participant of the session and not to A.
C18_PlayerUpdateRelayed ==
    [][\A c \in Conns, data \in Payloads :
          (/\ result'.op = "playerUpdate"
           /\ result'.conn = c
           /\ playerUpdate(c, data)
           /\ socketToLobby[c] \in DOMAIN lobbies
           /\ c \in Roster(socketToLobby[c]))
          => LET L == socketToLobby[c]
                 i == SeatIndex(c, L)
             IN  /\ Len(lobbies'[L].players) = Len(lobbies[L].players)
                 /\ lobbies'[L].players[i].id = c
                 /\ lobbies'[L].players[i].position = data.position
                 /\ lobbies'[L].players[i].rotation = data.rotation
                 /\ lobbies'[L].players[i].health = data.health
                 /\ \A k \in 1..Len(lobbies[L].players) :
                        k # i => lobbies'[L].players[k] = lobbies[L].players[k]
                 /\ Len(emitted') = 1
                 /\ emitted'[1].ev = "playerMoved"
                 /\ emitted'[1].arg = c
                 /\ emitted'[1].data = data
                 /\ c \notin emitted'[1].to
                 /\ (Roster(L) \cap sockets) \ {c} \subseteq emitted'[1].to]_vars

\* a participant's update has been stored and sent to another participant
C18_Witness ==
    /\ result.op = "playerUpdate"
    /\ result.status = "relayed"
    /\ result.lobby \in DOMAIN lobbies
    /\ result.conn \in Roster(result.lobby)
    /\ lobbies[result.lobby].players[SeatIndex(result.conn, result.lobby)].health = 80
    /\ Len(emitted) = 1
    /\ emitted[1].to # {}
    /\ emitted[1].to \subseteq Roster(result.lobby) \ {result.conn}

\* c is the host of the tracked session it is mapped to
CurrentHost(c) ==
    /\ socketToLobby[c] \in DOMAIN lobbies
    /\ lobbies[socketToLobby[c]].hostId = c

\* the step was an enemySync or a collectibleSync of c
Synced(c) ==
    /\ steps' = steps + 1
    /\ result'.op \in {"enemySync", "collectibleSync"}
    /\ result'.conn = c

\* C19: an enemySync or collectibleSync from a connection that is not the host
\* of its session emits nothing and changes no state; one from the host, a host
\* that a migration has promoted included, is relayed as one enemyUpdate or
\* collectibleUpdate to every other connected participant and not to the host.
C19_HostOnlySync ==
    [][\A c \in Conns :
          Synced(c)
          => IF CurrentHost(c)
             THEN /\ Len(emitted') = 1
                  /\ emitted'[1].ev = (IF result'.op = "enemySync"
                                       THEN "enemyUpdate" ELSE "collectibleUpdate")
                  /\ emitted'[1].lobby = socketToLobby[c]
                  /\ emitted'[1].data \in EntityLists
                  /\ c \notin emitted'[1].to
                  /\ (Roster(socketToLobby[c]) \cap sockets) \ {c} \subseteq emitted'[1].to
                  /\ UNCHANGED <<sockets, closed, lobbies, socketToLobby, matchmakingQueue,
                                 rooms, lobbyCounter, registry, timers>>
             ELSE /\ emitted' = <<>>
                  /\ UNCHANGED <<sockets, closed, lobbies, socketToLobby, matchmakingQueue,
                                 rooms, lobbyCounter, registry, timers>>]_vars

\* a participant that came in by joinLobby has been promoted to host by a
\* migration, and the sync of a participant that is not the host was dropped
C19_Witness ==
    /\ result.op \in {"enemySync", "collectibleSync"}
    /\ result.status = "ignored"
    /\ result.lobby \in DOMAIN lobbies
    /\ result.conn \in Roster(result.lobby)
    /\ emitted = <<>>
    /\ LET host == lobbies[result.lobby].players[1]
       IN  /\ host.id = lobbies[result.lobby].hostId
           /\ host.id # result.conn
           /\ host.isHost
           /\ host.position = <<RandomCoord, 2, RandomCoord>>

\* the actions that act on the sender's session
SessionScoped ==
    {"leaveLobby", "playerUpdate", "enemySync", "collectibleSync", "itemCollected",
     "enemyKilled", "sendChat", "toggleReady", "startGame", "playerDied"}

\* the errors a callback can carry
CallbackErrors ==
    {"Not in a lobby", "Not the host", "Need at least 2 players", "Lobby not found",
     "Lobby is full", "Game already started", "No available slots",
     "Max lobbies reached (20)"}

\* C20: a session-scoped action from a connection that is mapped to no session
\* changes no session, no back-reference, no queue and no registry state, emits
\* no event of a session and answers no error.
C20_UnmappedIgnored ==
    [][\A c \in Conns :
          (/\ steps' = steps + 1
           /\ result'.conn = c
           /\ result'.op \in SessionScoped
           /\ socketToLobby[c] = NoLobby)
          => /\ UNCHANGED <<lobbies, socketToLobby, matchmakingQueue, registry>>
             /\ \A i \in 1..Len(emitted') : emitted'[i].lobby = NoLobby
             /\ result'.status \notin CallbackErrors]_vars

\* the connections whose socket.username is u
Tagged(u) == {c \in Conns : socketUsername[c] = u}

\* C14: register(u) from a connection c2, while the registry binds u to another
\* connection, answers "Username taken" and leaves the registry as it is when
\* that entry's lastActivity is less than USERNAME_TIMEOUT ago, and succeeds and
\* binds u to c2 when it is more than USERNAME_TIMEOUT ago.
C14_RegisterTaken ==
    [][\A c2 \in Conns, username \in RegNames :
          (/\ result'.op = "register"
           /\ result'.conn = c2
           /\ register(c2, username)
           /\ Trim(username) \in DOMAIN usernames
           /\ usernames[Trim(username)].socketId # c2)
          => LET u == Trim(username)
                 age == now - usernames[u].lastActivity
             IN  /\ age < USERNAME_TIMEOUT
                      => (result'.status = "Username taken" /\ UNCHANGED registry)
                 /\ age > USERNAME_TIMEOUT
                      => /\ result'.status = "ok"
                         /\ usernames'[u] = [socketId |-> c2, lastActivity |-> now]
                         /\ socketUsername'[c2] = u
                         /\ \A x \in DOMAIN usernames \ {u} :
                                x \in DOMAIN usernames' /\ usernames'[x] = usernames[x]]_vars

\* a name registered at time 0 by one connection, not yet swept, has been
\* rebound to another connection after the window
C14_Witness ==
    /\ result.op = "register"
    /\ result.status = "ok"
    /\ now = USERNAME_TIMEOUT + 1
    /\ \E u \in DOMAIN usernames :
          /\ usernames[u].socketId = result.conn
          /\ socketUsername[result.conn] = u
          /\ usernames[u].lastActivity = now
          /\ Tagged(u) \ {result.conn} # {}

\* C15: at most one username of the registry is bound to a connection.
C15_OneNamePerConnection ==
    \A c \in Conns :
        Cardinality({u \in DOMAIN usernames : usernames[u].socketId = c}) <= 1

GameplayOps ==
    {"playerUpdate", "sendChat", "toggleReady", "enemySync", "collectibleSync",
     "itemCollected", "enemyKilled"}

\* C16: every gameplay action of a connection that is a participant of a
\* tracked session and owns the registry entry of its username sets that
\* entry's lastActivity to the time of the action.
C16_ActivityRefreshed ==
    [][\A c \in Conns :
          (/\ steps' = steps + 1
           /\ result'.op \in GameplayOps
           /\ result'.conn = c
           /\ socketToLobby[c] \in DOMAIN lobbies
           /\ c \in Roster(socketToLobby[c])
           /\ socketUsername[c] \in DOMAIN usernames
           /\ usernames[socketUsername[c]].socketId = c)
          => /\ socketUsername[c] \in DOMAIN usernames'
             /\ usernames'[socketUsername[c]].lastActivity = now']_vars

\* the step was the disconnect of c
Disconnected(c) ==
    /\ steps' = steps + 1
    /\ result'.op = "disconnect"
    /\ result'.conn = c

\* C17: a disconnect leaves the usernames map as it is; an entry leaves the map
\* only when a sweep finds it more than USERNAME_TIMEOUT old; and register of a
\* name whose entry belongs to a closed connection and is less than
\* USERNAME_TIMEOUT old answers "Username taken" and changes nothing.
C17_DisconnectKeepsName ==
    /\ [][\A c \in Conns : Disconnected(c) => UNCHANGED usernames]_vars
    /\ [][\A u \in DOMAIN usernames :
             u \notin DOMAIN usernames'
             => (result'.op = "elapse"
                 /\ LastSweep(now') - usernames[u].lastActivity > USERNAME_TIMEOUT)]_vars
    /\ [][\A c2 \in Conns, username \in RegNames :
             (/\ result'.op = "register"
              /\ result'.conn = c2
              /\ register(c2, username)
              /\ Trim(username) \in DOMAIN usernames
              /\ usernames[Trim(username)].socketId \in closed
              /\ now - usernames[Trim(username)].lastActivity < USERNAME_TIMEOUT)
             => (result'.status = "Username taken" /\ UNCHANGED registry)]_vars

\* the only name of the registry belongs to a closed connection and another
\* connection has just been refused it, one millisecond before the window ends
C17_Witness ==
    /\ result.op = "register"
    /\ result.status = "Username taken"
    /\ Cardinality(DOMAIN usernames) = 1
    /\ \A u \in DOMAIN usernames :
          /\ usernames[u].socketId \in closed
          /\ now - usernames[u].lastActivity = USERNAME_TIMEOUT - 1

\* C21: the cleanup that the disconnect of a connection runs directly after
\* that connection's leaveLobby changes no session, no roster, no host, no
\* back-reference and no queue, and emits no playerLeft and no newHost.
C21_CleanupIdempotent ==
    [][\A c \in Conns :
          (/\ result.op = "leaveLobby"
           /\ result.conn = c
           /\ Disconnected(c))
          => /\ UNCHANGED <<lobbies, socketToLobby, matchmakingQueue>>
             /\ Events(emitted', "playerLeft") = {}
             /\ Events(emitted', "newHost") = {}]_vars

\* the host of a two-participant session has left with leaveLobby, which
\* promoted the other participant, and has then disconnected
C21_Witness ==
    /\ result.op = "disconnect"
    /\ result.lobby = NoLobby
    /\ closed = {result.conn}
    /\ steps = 4
    /\ emitted = <<>>
    /\ \E L \in DOMAIN lobbies :
          /\ lobbies[L].hostId = lobbies[L].players[1].id
          /\ lobbies[L].players[1].isHost
          /\ lobbies[L].players[1].position = <<RandomCoord, 2, RandomCoord>>
          /\ \A d \in Conns \ (Roster(L) \cup {result.conn}) : Untouched(d)

\* C22: no tracked session has an empty roster, and a leaveLobby or disconnect
\* that takes the last participant out of a session deletes the session, so
\* that it is not in the list getLobbies gives and joinLobby cannot find it.
C22_NoEmptySession ==
    /\ [](\A L \in DOMAIN lobbies : Len(lobbies[L].players) > 0)
    /\ [][\A c \in Conns, L \in LobbyIds :
             (Leaves(c, L) /\ Roster(L) = {c})
             => /\ L \notin DOMAIN lobbies'
                /\ L \notin {info.id : info \in LobbyList'}]_vars

\* the only participant of a session has left it and the session is gone
C22_Witness ==
    /\ result.op = "leaveLobby"
    /\ result.lobby # NoLobby
    /\ result.lobby \in rooms[result.conn]
    /\ result.lobby \notin DOMAIN lobbies
    /\ socketToLobby[result.conn] = NoLobby
    /\ steps = 2

\* the step was a getLobbies
Listed ==
    /\ steps' = steps + 1
    /\ result'.op = "getLobbies"

\* C30: the list getLobbies returns has one entry for each tracked session
\* whose state is waiting and whose roster is below its capacity, and no other
\* entry; an entry carries the session's id, name, size, capacity and state.
C30_ListIsOpenSessions ==
    [][Listed
       => /\ Len(emitted') = 1
          /\ emitted'[1].to = {result'.conn}
          /\ {info.id : info \in emitted'[1].data}
               = {L \in DOMAIN lobbies : /\ lobbies[L].gameState = "waiting"
                                         /\ Len(lobbies[L].players) < lobbies[L].maxPlayers}
          /\ \A info \in emitted'[1].data :
                /\ info.name = lobbies[info.id].name
                /\ info.playerCount = Len(lobbies[info.id].players)
                /\ info.maxPlayers = lobbies[info.id].maxPlayers
                /\ info.gameState = "waiting"
          /\ UNCHANGED <<lobbies, socketToLobby, matchmakingQueue, rooms>>]_vars

\* of two tracked sessions, one of them not open, the list names the open one
C30_Witness ==
    /\ result.op = "getLobbies"
    /\ Len(emitted) = 1
    /\ Cardinality(DOMAIN lobbies) = 2
    /\ Cardinality(emitted[1].data) = 1
    /\ \E L \in DOMAIN lobbies : lobbies[L].gameState # "waiting"

\* the step was a playerDied of c, a participant of the tracked session S
Died(c, S) ==
    /\ steps' = steps + 1
    /\ result'.op = "playerDied"
    /\ result'.conn = c
    /\ socketToLobby[c] = S
    /\ S \in DOMAIN lobbies
    /\ c \in Roster(S)

\* C23: after playerDied from a participant of session S, S is not tracked, no
\* connection's back-reference names S, and one gameOver event carrying the
\* username on the sender's participant record has gone to every connected
\* participant of S.
C23_GameOverTearsDown ==
    [][\A c \in Conns, S \in LobbyIds :
          Died(c, S)
          => /\ S \notin DOMAIN lobbies'
             /\ \A x \in Conns : socketToLobby'[x] # S
             /\ Cardinality(Events(emitted', "gameOver")) = 1
             /\ emitted'[1].ev = "gameOver"
             /\ emitted'[1].lobby = S
             /\ emitted'[1].data = lobbies[S].players[SeatIndex(c, S)].username
             /\ Roster(S) \cap sockets \subseteq emitted'[1].to]_vars

\* the step was a sendChat that the session L took
Chatted(L) ==
    /\ result'.op = "sendChat"
    /\ result'.status = "sent"
    /\ result'.lobby = L
    /\ L \in DOMAIN lobbies

\* C24: a session's chat log never holds more than CHAT_MAX messages; when n
\* messages have been sent it holds the last min(n, CHAT_MAX) of them, oldest
\* first; and a sendChat puts its message at the end, taking the oldest one
\* out exactly when the log was full.  The n-th message of a session has id n.
C24_ChatBounded ==
    /\ [](\A L \in DOMAIN lobbies :
             LET chat == lobbies[L].chat
                 n == IF chat = <<>> THEN 0 ELSE chat[Len(chat)].id
             IN  /\ Len(chat) <= 100
                 /\ Len(chat) = (IF n < 100 THEN n ELSE 100)
                 /\ \A i \in 1..Len(chat) : chat[i].id = n - Len(chat) + i)
    /\ [][\A L \in LobbyIds :
             Chatted(L)
             => LET chat == lobbies[L].chat
                    message == emitted'[1].data
                IN  /\ message.text \in ChatTexts
                    /\ lobbies'[L].chat =
                         (IF Len(chat) = 100 THEN Tail(chat) ELSE chat) \o <<message>>]_vars

\* a session has been sent 102 messages and keeps the 3rd to the 102nd
C24_Witness ==
    \E L \in DOMAIN lobbies :
        /\ Len(lobbies[L].chat) = 100
        /\ lobbies[L].chat[1].id = 3
        /\ lobbies[L].chat[100].id = 102
        /\ result.op = "sendChat"

\* the step was a createLobby of c
Created(c) ==
    /\ steps' = steps + 1
    /\ result'.op = "createLobby"
    /\ result'.conn = c

\* C25: createLobby from a connection without a registered identity fails and
\* creates no session.
C25_CreateNeedsIdentity ==
    [][\A c \in Conns :
          (/\ Created(c)
           /\ socketUsername[c] = NoName
           /\ \A u \in DOMAIN usernames : usernames[u].socketId # c)
          => (result'.status # "ok" /\ UNCHANGED lobbies)]_vars

\* C27: the id under which createLobby or quickMatch stores a session is not
\* the id of a tracked session.
C27_FreshId ==
    [][(/\ steps' = steps + 1
        /\ \/ result'.op = "createLobby" /\ result'.status = "ok"
           \/ result'.op = "quickMatch" /\ result'.status = "matched")
       => result'.lobby \notin DOMAIN lobbies]_vars

\* the step was a joinLobby of c for the id L
Joined(c, L) ==
    /\ steps' = steps + 1
    /\ result'.op = "joinLobby"
    /\ result'.conn = c
    /\ result'.lobby = L

\* C28 as stated: joinLobby answers "Lobby not found" for an id that is not
\* tracked and "Game already started" for every tracked session that is not
\* waiting, and changes no roster and no back-reference in both cases.
C28_JoinRejected_AsStated ==
    [][\A c \in Conns, L \in LobbyIds :
          Joined(c, L)
          => /\ L \notin DOMAIN lobbies
                  => (/\ result'.status = "Lobby not found"
                      /\ UNCHANGED <<lobbies, socketToLobby>>)
             /\ (L \in DOMAIN lobbies /\ lobbies[L].gameState # "waiting")
                  => (/\ result'.status = "Game already started"
                      /\ UNCHANGED <<lobbies, socketToLobby>>)]_vars

\* C28, amended: joinLobby answers "Lobby not found" for an id that is not
\* tracked, "Lobby is full" for a tracked session at its capacity whatever its
\* state, and "Game already started" for a tracked session below its capacity
\* that is not waiting; no roster and no back-reference changes in any of these.
C28_JoinRejected ==
    [][\A c \in Conns, L \in LobbyIds :
          Joined(c, L)
          => /\ L \notin DOMAIN lobbies
                  => (/\ result'.status = "Lobby not found"
                      /\ UNCHANGED <<lobbies, socketToLobby, rooms>>)
             /\ (L \in DOMAIN lobbies /\ lobbies[L].gameState # "waiting")
                  => (/\ result'.status =
                           (IF Len(lobbies[L].players) >= lobbies[L].maxPlayers
                            THEN "Lobby is full" ELSE "Game already started")
                      /\ UNCHANGED <<lobbies, socketToLobby, rooms>>)]_vars

\* an auto-matched session that one of its two participants has left has
\* refused a join because it is not waiting
C28_Witness ==
    /\ result.op = "joinLobby"
    /\ result.status = "Game already started"
    /\ result.lobby \in DOMAIN lobbies
    /\ lobbies[result.lobby].maxPlayers = 2
    /\ Len(lobbies[result.lobby].players) = 1
    /\ result.conn \notin Roster(result.lobby)
    /\ socketToLobby[result.conn] = NoLobby

\* the seats of the roster of L
Seats(L) == {lobbies[L].players[i].slot : i \in 1..Len(lobbies[L].players)}

\* C29: a successful joinLobby records the joiner with the lowest seat of
\* 1..capacity that no participant held, isHost = false and isReady = false,
\* and leaves the session's state and host as they were.
C29_JoinTakesLowestSeat ==
    [][\A c \in Conns, L \in LobbyIds :
          (Joined(c, L) /\ result'.status = "ok")
          => LET free == (1..lobbies[L].maxPlayers) \ Seats(L)
                 mine == SelectSeq(lobbies'[L].players, LAMBDA p : p.id = c)
             IN  /\ Len(mine) = 1
                 /\ mine[1].slot \in free
                 /\ \A k \in free : mine[1].slot <= k
                 /\ ~mine[1].isHost
                 /\ ~mine[1].isReady
                 /\ lobbies'[L].gameState = lobbies[L].gameState
                 /\ lobbies'[L].hostId = lobbies[L].hostId
                 /\ socketToLobby'[c] = L]_vars

\* a joiner has taken seat 2, which a participant had left, below seat 3
C29_Witness ==
    /\ result.op = "joinLobby"
    /\ result.status = "ok"
    /\ result.lobby \in DOMAIN lobbies
    /\ Len(lobbies[result.lobby].players) = 3
    /\ lobbies[result.lobby].players[3].id = result.conn
    /\ lobbies[result.lobby].players[3].slot = 2
    /\ lobbies[result.lobby].players[2].slot = 3
    /\ lobbies[result.lobby].players[1].slot = 1

\* the step was a createLobby of c, counted in the length of the run or not
CreateAnswered(c) ==
    /\ result'.op = "createLobby"
    /\ result'.conn = c
    /\ <<result, lobbies, steps>>' # <<result, lobbies, steps>>

\* C26: with 20 or more tracked sessions createLobby answers the capacity
\* error and leaves the sessions and the caller's back-reference as they are;
\* with fewer it stores exactly one more session, waiting, whose only
\* participant is the creator as host at seat 1, and maps the creator to it.
C26_CreateCapacity ==
    [][\A c \in Conns :
          CreateAnswered(c)
          => IF Cardinality(DOMAIN lobbies) >= 20
             THEN /\ result'.status = "Max lobbies reached (20)"
                  /\ UNCHANGED <<lobbies, socketToLobby, rooms, lobbyCounter>>
             ELSE LET L == result'.lobby
                  IN  /\ result'.status = "ok"
                      /\ L \notin DOMAIN lobbies
                      /\ DOMAIN lobbies' = DOMAIN lobbies \cup {L}
                      /\ \A x \in DOMAIN lobbies : lobbies'[x] = lobbies[x]
                      /\ lobbies'[L].gameState = "waiting"
                      /\ lobbies'[L].hostId = c
                      /\ Len(lobbies'[L].players) = 1
                      /\ lobbies'[L].players[1].id = c
                      /\ lobbies'[L].players[1].isHost
                      /\ lobbies'[L].players[1].slot = 1
                      /\ socketToLobby'[c] = L]_vars

\* the twenty-first createLobby has been refused
C26_Witness ==
    /\ result.op = "createLobby"
    /\ result.status = "Max lobbies reached (20)"
    /\ Cardinality(DOMAIN lobbies) = 20
    /\ lobbyCounter = 21

\* the step was a toggleReady of c, a participant of the tracked session L
\* that c is mapped to
ToggledReady(c, L) ==
    /\ steps' = steps + 1
    /\ result'.op = "toggleReady"
    /\ result'.conn = c
    /\ socketToLobby[c] = L
    /\ L \in DOMAIN lobbies
    /\ c \in Roster(L)

\* the roster with the isReady flag of c's record negated
Flipped(players, c) ==
    [k \in 1..Len(players) |->
        IF players[k].id = c THEN [players[k] EXCEPT !.isReady = ~@] ELSE players[k]]

Loading(L) == L \in DOMAIN lobbies /\ lobbies[L].gameState = "loading"

PlayingOrGone(L) == L \notin DOMAIN lobbies \/ lobbies[L].gameState = "playing"

\* C32: when the due callbacks run, a session that is Loading, whether a host's
\* startGame or a match put it there, is Playing or deleted at some later
\* time, with no handler having to run in between.
C32_LoadingEnds == \A L \in LobbyIds : Loading(L) ~> PlayingOrGone(L)

\* a matched session is Playing after two quickMatch calls and the callbacks
C32_Witness ==
    /\ steps = 2
    /\ result.op = "matchStartTimer"
    /\ result.status = "fired"
    /\ result.lobby \in DOMAIN lobbies
    /\ lobbies[result.lobby].maxPlayers = MATCH_MAX_PLAYERS
    /\ lobbies[result.lobby].gameState = "playing"
    /\ timers = <<>>

SessionEvents ==
    {"chatMessage", "playerMoved", "playerReady", "newHost", "gameLoading", "gameStarted",
     "enemyUpdate", "itemRemoved", "gameOver"}

\* the roster of L, empty when L is not tracked
RosterOrNone(ls, L) == IF L \in DOMAIN ls THEN Ids(ls[L].players) ELSE {}

\* C33: every session event a step emits for session X reaches only
\* connections that are in X's roster when the step is taken (before it or
\* after it); one that left X through leaveLobby is sent none.
C33_EventsToRosterOnly ==
    [][\A i \in 1..Len(emitted') :
          emitted'[i].ev \in SessionEvents
          => emitted'[i].to \subseteq
                 RosterOrNone(lobbies, emitted'[i].lobby)
                   \cup RosterOrNone(lobbies', emitted'[i].lobby)]_vars

\* c is mapped to L exactly when L is tracked and has c in its roster
BackRefAgrees(c, L) == socketToLobby[c] = L <=> (L \in DOMAIN lobbies /\ c \in Roster(L))

\* a playerDied of a participant of S leaves the back-references to other
\* sessions as they are
DiedKeepsOthers ==
    \A c \in Conns, S \in LobbyIds :
        Died(c, S)
        => \A x \in Conns : socketToLobby[x] \notin {S, NoLobby}
                            => socketToLobby'[x] = socketToLobby[x]

\* C34: in every state a connection is mapped to session id L if and only if L
\* is tracked and the connection is in L's roster, and a playerDied in one
\* session clears no back-reference that points to another session.
C34_BackRefsAgree ==
    /\ [](\A c \in Conns, L \in LobbyIds : BackRefAgrees(c, L))
    /\ [][DiedKeepsOthers]_vars

\* C35: no state tracks more than MAX_LOBBIES sessions, whether createLobby or
\* quickMatch stored them.
C35_SessionsBounded == Cardinality(DOMAIN lobbies) <= MAX_LOBBIES

\* C36: a connection that waits in the matchmaking queue is in the roster of
\* no tracked session.
C36_QueuedNotParticipant ==
    \A c \in Range(matchmakingQueue) : \A L \in DOMAIN lobbies : c \notin Roster(L)

\* C37: the matchmaking queue holds at most one connection and only connected
\* ones, and a quickMatch that finds another connection waiting is matched
\* with it and leaves the queue empty.
C37_QueueAtMostOne ==
    /\ [](Len(matchmakingQueue) <= 1 /\ Range(matchmakingQueue) \subseteq sockets)
    /\ [][\A c \in Conns :
             (QuickMatched(c) /\ Others(c) # <<>>)
             => /\ result'.status = "matched"
                /\ lobbies'[result'.lobby].hostId = Head(Others(c))
                /\ matchmakingQueue' = <<>>]_vars

\* the second of two quickMatch calls found the first caller waiting and
\* was matched with it
C37_Witness ==
    /\ steps = 2
    /\ result.op = "quickMatch"
    /\ result.status = "matched"
    /\ closed = {}
    /\ lobbies[result.lobby].hostId # result.conn
    /\ Len(timers) = 2
    /\ matchmakingQueue = <<>>

\* the pending Loading->Playing callbacks of session L
PendingStarts(L) ==
    {i \in 1..Len(timers) : timers[i].lobby = L /\ timers[i].kind \in {"start", "matchStart"}}

\* C38: at most one Loading->Playing callback is pending for a session at any
\* time, and gameStarted is not sent for a session that is Playing already,
\* its gameStarted having been sent when it became so.
C38_StartedOnce ==
    /\ [](\A L \in DOMAIN lobbies : Cardinality(PendingStarts(L)) <= 1)
    /\ [][\A i \in 1..Len(emitted') :
             (emitted'[i].ev = "gameStarted" /\ emitted'[i].lobby \in DOMAIN lobbies)
             => lobbies[emitted'[i].lobby].gameState # "playing"]_vars

\* C39: the hostId of every tracked session is the id of a participant in
\* that session's roster.
C39_HostInRoster == \A L \in DOMAIN lobbies : lobbies[L].hostId \in Roster(L)

\* the host has gone and the session is hosted by a participant that joined it
C39_Witness ==
    /\ result.op \in {"leaveLobby", "disconnect"}
    /\ result.lobby \in DOMAIN lobbies
    /\ result.conn \notin Roster(result.lobby)
    /\ lobbies[result.lobby].hostId = lobbies[result.lobby].players[1].id
    /\ lobbies[result.lobby].players[1].position = <<RandomCoord, 2, RandomCoord>>
    /\ Events(emitted, "newHost") # {}

\* the tag of a connected socket is a username the registry binds to it
TagBound(c) ==
    socketUsername[c] # NoName
    => /\ socketUsername[c] \in DOMAIN usernames
       /\ usernames[socketUsername[c]].socketId = c

\* no two connected sockets carry the same username
TagsDistinct ==
    \A c, d \in sockets :
        (c # d /\ socketUsername[c] # NoName) => socketUsername[c] # socketUsername[d]

\* a playerUpdate changes only registry entries bound to its sender
UpdateTouchesOwn ==
    \A c \in Conns :
        (result'.op = "playerUpdate" /\ result'.conn = c /\ steps' = steps + 1)
        => \A u \in DOMAIN usernames :
               usernames'[u] # usernames[u] => usernames[u].socketId = c

\* C40: in every state the username a connected connection is tagged with is
\* bound to that connection in the registry, no two connected connections are
\* tagged with the same username, and a playerUpdate refreshes only a registry
\* entry bound to its sender.
C40_TagMatchesRegistry ==
    /\ [](\A c \in sockets : TagBound(c))
    /\ []TagsDistinct
    /\ [][UpdateTouchesOwn]_vars

====
